---- MODULE Spec2Model ----
(***************************************************************************)
(* A state-machine model of the CHIP-8 interpreter of src/chip8/cpu.py.    *)
(* The state is the CPU object's fields.  One step of the machine is one   *)
(* call of CPU.execute_cycle: fetch the word at pc, dispatch it through    *)
(* the opcode tables, run the handler, tick the timers.  Python integers   *)
(* are unbounded, and Python lists accept the negative indices -len..-1;   *)
(* both are modelled as they are, so that a register or an index leaving   *)
(* its intended range is something the model can show.  An exception       *)
(* raised inside a cycle is not caught by anybody (src/chip8/chip8.py has  *)
(* no handler), so it ends the run: status records it and no further       *)
(* cycle executes.  The main loop of src/chip8/chip8.py, which calls       *)
(* execute_cycle, redraws the window and polls the events, is modelled by  *)
(* the actions of HostSpec; under Spec the object is driven directly, the  *)
(* way src/tests/test_cpu.py drives it.  DecodeSpec applies the field      *)
(* extractors alone to every 16-bit word.                                  *)
(***************************************************************************)
EXTENDS Integers, Sequences, FiniteSets, TLC

VARIABLES
    rom,        \* the program image given to load_rom (a sequence of bytes)
    memory,     \* self.memory, kept as the cells whose content differs from
                \* what CPU() and load_rom(rom) left there
    v,          \* self.v
    i,          \* self.i
    pc,         \* self.pc
    stack,      \* self.stack
    sp,         \* self.sp
    delay,      \* self.delay
    sound,      \* self.sound
    gfx,        \* self.gfx, kept as the entries that are not 0
    shouldDraw, \* self.shouldDraw
    keys,       \* self.keys
    operand,    \* self.operand: the last word handed to execute_opcode
    waitreg,    \* the x of the FX0A whose event loop is running
    status,     \* "running", "waiting" (inside FX0A), "exit", or the
                \* name of the exception that ended the run
    beep,       \* whether the latest call of update_timers printed "Beep!"
    host,       \* where the main loop of chip8.py stands: "cycle" (line
                \* 84), "draw" (86), "events" (91); "none" when no main
                \* loop runs and the object is driven directly
    screen,     \* the window as draw() last painted it, kept as the
                \* entries that are not black
    due,        \* whether a 60 Hz period of real time has passed since the
                \* timers were last updated
    event,      \* the event FX0A's loop took last from pygame.event.wait():
                \* its type, for a KEYDOWN whether its key is one of the
                \* sixteen, and the values of the keys of KEY_MAP that
                \* pygame.key.get_pressed() then reported held
    decoded     \* a word and what decode_opcode, get_nnn, get_nn, get_n,
                \* get_x and get_y returned for it, once they were called

vars == <<rom, memory, v, i, pc, stack, sp, delay, sound, gfx, shouldDraw,
          keys, operand, waitreg, status, beep, host, screen, due, event,
          decoded>>

----------------------------------------------------------------------------
(* Program constants.                                                      *)

MEMORY == 4096
REGISTERS == 16
STACK == 16
PROGRAM_COUNTER_START == 512
HEIGHT == 32
WIDTH == 64
KEYS == 16

FONTSET ==
    << \hF0, \h90, \h90, \h90, \hF0,
       \h20, \h60, \h20, \h20, \h70,
       \hF0, \h10, \hF0, \h80, \hF0,
       \hF0, \h10, \hF0, \h10, \hF0,
       \h90, \h90, \hF0, \h10, \h10,
       \hF0, \h80, \hF0, \h10, \hF0,
       \hF0, \h80, \hF0, \h90, \hF0,
       \hF0, \h10, \h20, \h40, \h40,
       \hF0, \h90, \hF0, \h90, \hF0,
       \hF0, \h90, \hF0, \h10, \hF0,
       \hF0, \h90, \hF0, \h90, \h90,
       \hE0, \h90, \hE0, \h90, \hE0,
       \hF0, \h80, \h80, \h80, \hF0,
       \hE0, \h90, \h90, \h90, \hE0,
       \hF0, \h80, \hF0, \h80, \hF0,
       \hF0, \h80, \hF0, \h80, \h80 >>

\* The hex values of KEY_MAP: the sixteen keys pygame reports to FX0A.
KEY_MAP == 0 .. 15

----------------------------------------------------------------------------
(* Python's integer and list primitives.                                   *)

\* a & b, a | b, a ^ b on unbounded two's-complement integers.
RECURSIVE BitAnd(_, _)
BitAnd(a, b) ==
    IF a = 0 \/ b = 0 THEN 0
    ELSE IF a = -1 THEN b
    ELSE IF b = -1 THEN a
    ELSE (a % 2) * (b % 2) + 2 * BitAnd(a \div 2, b \div 2)

RECURSIVE BitOr(_, _)
BitOr(a, b) ==
    IF a = 0 THEN b
    ELSE IF b = 0 THEN a
    ELSE IF a = -1 \/ b = -1 THEN -1
    ELSE (IF a % 2 = 1 \/ b % 2 = 1 THEN 1 ELSE 0)
         + 2 * BitOr(a \div 2, b \div 2)

\* | written where ^ was meant.
BitXor_as_or(a, b) == BitOr(a, b)

RECURSIVE BitXor(_, _)
BitXor(a, b) ==
    IF a = 0 THEN b
    ELSE IF b = 0 THEN a
    ELSE IF a = -1 /\ b = -1 THEN 0
    ELSE (IF a % 2 = b % 2 THEN 0 ELSE 1)
         + 2 * BitXor(a \div 2, b \div 2)

\* a >> n and a << n.
ShiftRight(a, n) == a \div (2 ^ n)
ShiftLeft(a, n) == a * (2 ^ n)

\* lst[idx] on a list of length n: indices -n..n-1 are valid, a negative one
\* counts from the end; any other index raises IndexError.
ValidIndex(idx, n) == -n <= idx /\ idx < n
ListIndex(idx, n) == IF idx < 0 THEN idx + n ELSE idx

\* int(n / 10): true division, then truncation towards zero.
IntDiv10(n) == IF n >= 0 THEN n \div 10 ELSE -((-n) \div 10)

----------------------------------------------------------------------------
(* The CPU object as a record, so that a handler is an operator from the   *)
(* object before the call to the object after it.  err is "none" while no  *)
(* exception is in flight; waiting is TRUE while FX0A sits in its loop.    *)

Self ==
    [rom |-> rom, memory |-> memory, v |-> v, i |-> i, pc |-> pc, stack |-> stack,
     sp |-> sp, delay |-> delay, sound |-> sound, gfx |-> gfx,
     shouldDraw |-> shouldDraw, keys |-> keys, operand |-> operand,
     waitreg |-> waitreg, beep |-> beep, event |-> event, waiting |-> FALSE,
     err |-> "none"]

Raise(s, e) == [s EXCEPT !.err = e]

(* A list is kept as a function from the indices whose entry differs from  *)
(* a known background to that entry: memory against the bytes the loader   *)
(* left, gfx against 0.  Put keeps the form canonical, so that two equal   *)
(* lists are equal functions.                                              *)
Empty == [a \in {} |-> 0]

Get(cells, a, background) ==
    IF a \in DOMAIN cells THEN cells[a] ELSE background

Put(cells, a, val, background) ==
    IF val = background
    THEN [b \in DOMAIN cells \ {a} |-> cells[b]]
    ELSE [b \in DOMAIN cells \cup {a} |-> IF b = a THEN val ELSE cells[b]]

\* Cell a of self.memory once CPU.__init__ has run: zeros, then load_font.
\* A font loaded one byte short.
load_font_one_short(a) == IF a < Len(FONTSET) - 1 THEN FONTSET[a + 1] ELSE 0

load_font(a) == IF a < Len(FONTSET) THEN FONTSET[a + 1] ELSE 0

\* Cell a of self.memory once load(path, offset) has run on top of that:
\* the image's bytes are written one by one from offset on.
load(image, offset, a) ==
    IF a >= offset /\ a - offset < Len(image) THEN image[a - offset + 1]
    ELSE load_font(a)

load_rom(image, a) == load(image, PROGRAM_COUNTER_START, a)

\* self.memory[a] and self.memory[a] = val, for a in 0 .. MEMORY - 1.
ReadMemory(s, a) == Get(s.memory, a, load_rom(s.rom, a))
WriteMemory(s, a, val) ==
    [s EXCEPT !.memory = Put(@, a, val, load_rom(s.rom, a))]

\* self.gfx[p] and self.gfx[p] = val, for p in 0 .. WIDTH * HEIGHT - 1.
ReadGfx(s, p) == Get(s.gfx, p, 0)
WriteGfx(s, p, val) == [s EXCEPT !.gfx = Put(@, p, val, 0)]

----------------------------------------------------------------------------
(* Field extraction.  A mask with a run of one bits followed by a shift is  *)
(* a quotient and a remainder: opcode & 0x0F00 >> 8 is (opcode div 2^8)     *)
(* mod 2^4, for every integer.                                             *)

\* A get_y that masks and does not shift.
get_y_unshifted(opcode) == (opcode % 256) - (opcode % 16)

decode_opcode(opcode) == ((opcode \div 4096) % 16) * 4096
get_nnn(opcode) == opcode % 4096
get_nn(opcode) == opcode % 256
get_n(opcode) == opcode % 16
get_x(opcode) == (opcode \div 256) % 16
get_y(opcode) == (opcode \div 16) % 16

\* CPU.fetch_opcode; the caller has checked FetchFaults.
FetchFaults(s) ==
    ~ValidIndex(s.pc, MEMORY) \/ ~ValidIndex(s.pc + 1, MEMORY)

fetch_opcode(s) ==
    BitOr(ShiftLeft(ReadMemory(s, ListIndex(s.pc, MEMORY)), 8),
          ReadMemory(s, ListIndex(s.pc + 1, MEMORY)))

----------------------------------------------------------------------------
(* Instruction handlers.                                                   *)

\* A clear that does not ask for a redraw.
_00E0_without_redraw(s) == [s EXCEPT !.gfx = Empty, !.pc = @ + 2]

_00E0(s) ==
    [s EXCEPT !.gfx = Empty,
              !.shouldDraw = TRUE,
              !.pc = @ + 2]

\* A return that forgets the + 2 and resumes on the call itself.
_00EE_resuming_on_call(s) ==
    LET s1 == [s EXCEPT !.sp = @ - 1] IN
    IF ~ValidIndex(s1.sp, STACK) THEN Raise(s1, "IndexError")
    ELSE [s1 EXCEPT !.pc = s1.stack[ListIndex(s1.sp, STACK)]]

\* sp is decremented before the stack is read: the decrement survives an
\* IndexError of the read.
_00EE(s) ==
    LET s1 == [s EXCEPT !.sp = @ - 1] IN
    IF ~ValidIndex(s1.sp, STACK) THEN Raise(s1, "IndexError")
    ELSE [s1 EXCEPT !.pc = s1.stack[ListIndex(s1.sp, STACK)] + 2]

_1NNN(s, opcode) == [s EXCEPT !.pc = get_nnn(opcode)]

\* A call that counts the entry before it writes it: the count survives
\* the IndexError of the write.
_2NNN_counting_first(s, opcode) ==
    LET s1 == [s EXCEPT !.sp = @ + 1] IN
    IF ~ValidIndex(s.sp, STACK) THEN Raise(s1, "IndexError")
    ELSE [s1 EXCEPT !.stack[ListIndex(s.sp, STACK)] = s.pc,
                    !.pc = get_nnn(opcode)]

_2NNN(s, opcode) ==
    IF ~ValidIndex(s.sp, STACK) THEN Raise(s, "IndexError")
    ELSE [s EXCEPT !.stack[ListIndex(s.sp, STACK)] = s.pc,
                   !.sp = @ + 1,
                   !.pc = get_nnn(opcode)]

_3XNN(s, opcode) ==
    LET x == get_x(opcode) IN
    [s EXCEPT !.pc = IF s.v[x] = get_nn(opcode) THEN @ + 4 ELSE @ + 2]

\* 4XNN with the comparison of 3XNN.
_4XNN_on_equal(s, opcode) ==
    LET x == get_x(opcode) IN
    [s EXCEPT !.pc = IF s.v[x] = get_nn(opcode) THEN @ + 4 ELSE @ + 2]

_4XNN(s, opcode) ==
    LET x == get_x(opcode) IN
    [s EXCEPT !.pc = IF s.v[x] # get_nn(opcode) THEN @ + 4 ELSE @ + 2]

_5XY0(s, opcode) ==
    LET x == get_x(opcode)
        y == get_y(opcode) IN
    [s EXCEPT !.pc = IF s.v[x] = s.v[y] THEN @ + 4 ELSE @ + 2]

\* 6XNN taking the low nibble for NN.
_6XNN_low_nibble(s, opcode) ==
    LET x == get_x(opcode) IN
    [s EXCEPT !.v[x] = get_n(opcode), !.pc = @ + 2]

_6XNN(s, opcode) ==
    LET x == get_x(opcode) IN
    [s EXCEPT !.v[x] = get_nn(opcode), !.pc = @ + 2]

\* 7XNN without the reduction modulo 256.
_7XNN_unwrapped(s, opcode) ==
    LET x == get_x(opcode) IN
    [s EXCEPT !.v[x] = @ + get_nn(opcode), !.pc = @ + 2]

_7XNN(s, opcode) ==
    LET x == get_x(opcode) IN
    [s EXCEPT !.v[x] = (@ + get_nn(opcode)) % 256, !.pc = @ + 2]

_8XY0(s, x, y) == [s EXCEPT !.v[x] = s.v[y], !.pc = @ + 2]

_8XY1(s, x, y) == [s EXCEPT !.v[x] = BitOr(@, s.v[y]), !.pc = @ + 2]

_8XY2(s, x, y) == [s EXCEPT !.v[x] = BitAnd(@, s.v[y]), !.pc = @ + 2]

_8XY3(s, x, y) == [s EXCEPT !.v[x] = BitXor(@, s.v[y]), !.pc = @ + 2]

\* The flag is written first; v[x] += v[y] then reads the registers again.
_8XY4(s, x, y) ==
    LET flag == IF s.v[x] + s.v[y] > 255 THEN 1 ELSE 0
        s1 == [s EXCEPT !.v[15] = flag] IN
    [s1 EXCEPT !.v[x] = (s1.v[x] + s1.v[y]) % 256, !.pc = @ + 2]

\* The difference is written first, the flag second.
_8XY5(s, x, y) ==
    IF s.v[x] < s.v[y]
    THEN LET s1 == [s EXCEPT !.v[x] = 256 + (s.v[x] - s.v[y])] IN
         [s1 EXCEPT !.v[15] = 0, !.pc = @ + 2]
    ELSE LET s1 == [s EXCEPT !.v[x] = s.v[x] - s.v[y]] IN
         [s1 EXCEPT !.v[15] = 1, !.pc = @ + 2]

_8XY6(s, x, y) ==
    LET s1 == [s EXCEPT !.v[15] = BitAnd(s.v[y], 1)]
        s2 == [s1 EXCEPT !.v[y] = ShiftRight(s1.v[y], 1)] IN
    [s2 EXCEPT !.v[x] = s2.v[y], !.pc = @ + 2]

_8XY7(s, x, y) ==
    IF s.v[y] < s.v[x]
    THEN LET s1 == [s EXCEPT !.v[x] = 256 + (s.v[y] - s.v[x])] IN
         [s1 EXCEPT !.v[15] = 0, !.pc = @ + 2]
    ELSE LET s1 == [s EXCEPT !.v[x] = s.v[y] - s.v[x]] IN
         [s1 EXCEPT !.v[15] = 1, !.pc = @ + 2]

_8XYE(s, x, y) ==
    LET s1 == [s EXCEPT !.v[15] = ShiftRight(BitAnd(s.v[y], \h80), 7)]
        s2 == [s1 EXCEPT !.v[y] = ShiftLeft(s1.v[y], 1)] IN
    [s2 EXCEPT !.v[x] = s2.v[y], !.pc = @ + 2]

_9XY0(s, opcode) ==
    LET x == get_x(opcode)
        y == get_y(opcode) IN
    [s EXCEPT !.pc = IF s.v[x] # s.v[y] THEN @ + 4 ELSE @ + 2]

\* An ANNN that leaves the program counter where it is.
_ANNN_without_advance(s, opcode) == [s EXCEPT !.i = get_nnn(opcode)]

_ANNN(s, opcode) == [s EXCEPT !.i = get_nnn(opcode), !.pc = @ + 2]

\* BNNN with the sum cut to the 12 bits of an address.
_BNNN_wrapping(s, opcode) ==
    [s EXCEPT !.pc = (get_nnn(opcode) + s.v[0]) % MEMORY]

_BNNN(s, opcode) == [s EXCEPT !.pc = get_nnn(opcode) + s.v[0]]

\* rnd is the value randint(0, 255) returned.
_CXNN(s, opcode, rnd) ==
    LET x == get_x(opcode) IN
    [s EXCEPT !.v[x] = BitAnd(rnd, get_nn(opcode)), !.pc = @ + 2]

\* Pixel k of the sprite (row k \div 8, column k % 8), then the pixels after
\* it.  The row's byte is read from memory when the row starts; a set bit
\* reads and then flips one gfx entry.  What was drawn before an IndexError
\* stays drawn.
RECURSIVE DrawFrom(_, _, _, _, _)
DrawFrom(s, pos_x, pos_y, height, k) ==
    IF k >= 8 * height THEN s
    ELSE
        LET y == k \div 8
            x == k % 8
        IN
        IF ~ValidIndex(s.i + y, MEMORY) THEN Raise(s, "IndexError")
        ELSE
            LET pixel == ReadMemory(s, ListIndex(s.i + y, MEMORY))
                at == pos_x + x + ((pos_y + y) * 64)
            IN
            IF BitAnd(pixel, ShiftRight(\h80, x)) = 0
            THEN DrawFrom(s, pos_x, pos_y, height, k + 1)
            ELSE IF ~ValidIndex(at, WIDTH * HEIGHT) THEN Raise(s, "IndexError")
            ELSE
                LET p == ListIndex(at, WIDTH * HEIGHT)
                    s1 == [s EXCEPT !.v[15] = IF ReadGfx(s, p) = 1 THEN 1 ELSE @]
                    s2 == WriteGfx(s1, p, BitXor(ReadGfx(s1, p), 1))
                IN DrawFrom(s2, pos_x, pos_y, height, k + 1)

\* DXYN reading each sprite byte from its lowest bit.
RECURSIVE DrawFrom_lowest_bit_first(_, _, _, _, _)
DrawFrom_lowest_bit_first(s, pos_x, pos_y, height, k) ==
    IF k >= 8 * height THEN s
    ELSE
        LET y == k \div 8
            x == k % 8
        IN
        IF ~ValidIndex(s.i + y, MEMORY) THEN Raise(s, "IndexError")
        ELSE
            LET pixel == ReadMemory(s, ListIndex(s.i + y, MEMORY))
                at == pos_x + x + ((pos_y + y) * 64)
            IN
            IF BitAnd(pixel, ShiftLeft(1, x)) = 0
            THEN DrawFrom_lowest_bit_first(s, pos_x, pos_y, height, k + 1)
            ELSE IF ~ValidIndex(at, WIDTH * HEIGHT) THEN Raise(s, "IndexError")
            ELSE
                LET p == ListIndex(at, WIDTH * HEIGHT)
                    s1 == [s EXCEPT !.v[15] = IF ReadGfx(s, p) = 1 THEN 1 ELSE @]
                    s2 == WriteGfx(s1, p, BitXor(ReadGfx(s1, p), 1))
                IN DrawFrom_lowest_bit_first(s2, pos_x, pos_y, height, k + 1)

_DXYN_lowest_bit_first(s, opcode) ==
    LET pos_x == s.v[get_x(opcode)]
        pos_y == s.v[get_y(opcode)]
        height == get_n(opcode)
        r == DrawFrom_lowest_bit_first([s EXCEPT !.v[15] = 0],
                                       pos_x, pos_y, height, 0)
    IN
    IF r.err # "none" THEN r
    ELSE [r EXCEPT !.shouldDraw = TRUE, !.pc = @ + 2]

_DXYN(s, opcode) ==
    LET pos_x == s.v[get_x(opcode)]
        pos_y == s.v[get_y(opcode)]
        height == get_n(opcode)
        r == DrawFrom([s EXCEPT !.v[15] = 0], pos_x, pos_y, height, 0)
    IN
    IF r.err # "none" THEN r
    ELSE [r EXCEPT !.shouldDraw = TRUE, !.pc = @ + 2]

\* An EX9E that wraps VX into 0..15 before it looks at the key.
_EX9E_wrapping(s, x) ==
    [s EXCEPT !.pc = IF s.keys[s.v[x] % KEYS] THEN @ + 4 ELSE @ + 2]

_EX9E(s, x) ==
    IF ~ValidIndex(s.v[x], KEYS) THEN Raise(s, "IndexError")
    ELSE [s EXCEPT !.pc = IF s.keys[ListIndex(s.v[x], KEYS)] THEN @ + 4 ELSE @ + 2]

_EXA1(s, x) ==
    IF ~ValidIndex(s.v[x], KEYS) THEN Raise(s, "IndexError")
    ELSE [s EXCEPT !.pc = IF ~s.keys[ListIndex(s.v[x], KEYS)] THEN @ + 4 ELSE @ + 2]

_FX07(s, x) == [s EXCEPT !.v[x] = s.delay, !.pc = @ + 2]

\* An FX0A that does not wait.
_FX0A_without_waiting(s, x) == [s EXCEPT !.v[x] = 0, !.pc = @ + 2]

\* FX0A enters its event loop: the handler returns only through KeyDown.
_FX0A(s, x) == [s EXCEPT !.waiting = TRUE, !.waitreg = x]

_FX15(s, x) == [s EXCEPT !.delay = s.v[x], !.pc = @ + 2]

_FX18(s, x) == [s EXCEPT !.sound = s.v[x], !.pc = @ + 2]

_FX1E(s, x) == [s EXCEPT !.i = @ + s.v[x], !.pc = @ + 2]

_FX29(s, x) == [s EXCEPT !.i = s.v[x] * 5, !.pc = @ + 2]

\* for j in range(2, -1, -1): memory[i + j] = n % 10; n = int(n / 10)
RECURSIVE StoreDigits(_, _, _)
StoreDigits(s, n, j) ==
    IF j < 0 THEN s
    ELSE IF ~ValidIndex(s.i + j, MEMORY) THEN Raise(s, "IndexError")
    ELSE StoreDigits(WriteMemory(s, ListIndex(s.i + j, MEMORY), n % 10),
                     IntDiv10(n), j - 1)

\* FX33 with the loop running upwards: the units land at I.
_FX33_units_first(s, x) ==
    IF ~ValidIndex(s.i, MEMORY) \/ ~ValidIndex(s.i + 2, MEMORY)
    THEN Raise(s, "IndexError")
    ELSE
        LET n == s.v[x]
            s0 == WriteMemory(s, ListIndex(s.i, MEMORY), n % 10)
            s1 == WriteMemory(s0, ListIndex(s.i + 1, MEMORY),
                              IntDiv10(n) % 10)
            s2 == WriteMemory(s1, ListIndex(s.i + 2, MEMORY),
                              IntDiv10(IntDiv10(n)) % 10)
        IN [s2 EXCEPT !.pc = @ + 2]

_FX33(s, x) ==
    LET r == StoreDigits(s, s.v[x], 2) IN
    IF r.err # "none" THEN r ELSE [r EXCEPT !.pc = @ + 2]

\* for j in range(x + 1): memory[i + j] = v[j]; i += 1
RECURSIVE DumpFrom(_, _, _)
DumpFrom(s, x, j) ==
    IF j > x THEN s
    ELSE IF ~ValidIndex(s.i + j, MEMORY) THEN Raise(s, "IndexError")
    ELSE LET s1 == WriteMemory(s, ListIndex(s.i + j, MEMORY), s.v[j]) IN
         DumpFrom([s1 EXCEPT !.i = @ + 1], x, j + 1)

_FX55(s, x) ==
    LET r == DumpFrom(s, x, 0) IN
    IF r.err # "none" THEN r ELSE [r EXCEPT !.pc = @ + 2]

\* An FX65 that reads the consecutive cells I, I + 1, ..., I + X.
RECURSIVE FillConsecutive(_, _, _)
FillConsecutive(s, x, j) ==
    IF j > x THEN [s EXCEPT !.i = @ + x + 1]
    ELSE IF ~ValidIndex(s.i + j, MEMORY) THEN Raise(s, "IndexError")
    ELSE FillConsecutive(
             [s EXCEPT !.v[j] = ReadMemory(s, ListIndex(s.i + j, MEMORY))],
             x, j + 1)

_FX65_consecutive(s, x) ==
    LET r == FillConsecutive(s, x, 0) IN
    IF r.err # "none" THEN r ELSE [r EXCEPT !.pc = @ + 2]

\* for j in range(x + 1): v[j] = memory[i + j]; i += 1
RECURSIVE FillFrom(_, _, _)
FillFrom(s, x, j) ==
    IF j > x THEN s
    ELSE IF ~ValidIndex(s.i + j, MEMORY) THEN Raise(s, "IndexError")
    ELSE FillFrom([s EXCEPT !.v[j] = ReadMemory(s, ListIndex(s.i + j, MEMORY)),
                            !.i = @ + 1],
                  x, j + 1)

_FX65(s, x) ==
    LET r == FillFrom(s, x, 0) IN
    IF r.err # "none" THEN r ELSE [r EXCEPT !.pc = @ + 2]

----------------------------------------------------------------------------
(* The opcode tables of CPU.__init__ and the dispatch through them.  A     *)
(* table is a function from its keys to the name of the handler; a key     *)
(* outside the table's domain is the dict's KeyError.                      *)

opcodes ==
    (\h0000 :> "_0KKK") @@ (\h1000 :> "_1NNN") @@ (\h2000 :> "_2NNN") @@
    (\h3000 :> "_3XNN") @@ (\h4000 :> "_4XNN") @@ (\h5000 :> "_5XY0") @@
    (\h6000 :> "_6XNN") @@ (\h7000 :> "_7XNN") @@ (\h8000 :> "_8XYK") @@
    (\h9000 :> "_9XY0") @@ (\hA000 :> "_ANNN") @@ (\hB000 :> "_BNNN") @@
    (\hC000 :> "_CXNN") @@ (\hD000 :> "_DXYN") @@ (\hE000 :> "_EXKK") @@
    (\hF000 :> "_FXKK")

subroutine == (\h0000 :> "_00E0") @@ (\h000E :> "_00EE")

arthimetic ==
    (\h0000 :> "_8XY0") @@ (\h0001 :> "_8XY1") @@ (\h0002 :> "_8XY2") @@
    (\h0003 :> "_8XY3") @@ (\h0004 :> "_8XY4") @@ (\h0005 :> "_8XY5") @@
    (\h0006 :> "_8XY6") @@ (\h0007 :> "_8XY7") @@ (\h000E :> "_8XYE")

skip_keys == (\h000E :> "_EX9E") @@ (\h0001 :> "_EXA1")

misc ==
    (\h0007 :> "_FX07") @@ (\h000A :> "_FX0A") @@ (\h0015 :> "_FX15") @@
    (\h0018 :> "_FX18") @@ (\h001E :> "_FX1E") @@ (\h0029 :> "_FX29") @@
    (\h0033 :> "_FX33") @@ (\h0055 :> "_FX55") @@ (\h0065 :> "_FX65")

Lookup(table, key) == IF key \in DOMAIN table THEN table[key] ELSE "KeyError"

\* A class-0 dispatch that takes only the words 00E0 and 00EE.
_0KKK_exact(s, opcode) ==
    CASE opcode = \h00E0 -> _00E0(s)
      [] opcode = \h00EE -> _00EE(s)
      [] OTHER -> Raise(s, "KeyError")

_0KKK(s, opcode) ==
    LET h == Lookup(subroutine, get_n(opcode)) IN
    CASE h = "_00E0" -> _00E0(s)
      [] h = "_00EE" -> _00EE(s)
      [] OTHER -> Raise(s, "KeyError")

_8XYK(s, opcode) ==
    LET h == Lookup(arthimetic, get_n(opcode))
        x == get_x(opcode)
        y == get_y(opcode)
    IN
    CASE h = "_8XY0" -> _8XY0(s, x, y)
      [] h = "_8XY1" -> _8XY1(s, x, y)
      [] h = "_8XY2" -> _8XY2(s, x, y)
      [] h = "_8XY3" -> _8XY3(s, x, y)
      [] h = "_8XY4" -> _8XY4(s, x, y)
      [] h = "_8XY5" -> _8XY5(s, x, y)
      [] h = "_8XY6" -> _8XY6(s, x, y)
      [] h = "_8XY7" -> _8XY7(s, x, y)
      [] h = "_8XYE" -> _8XYE(s, x, y)
      [] OTHER -> Raise(s, "KeyError")

_EXKK(s, opcode) ==
    LET h == Lookup(skip_keys, get_n(opcode)) IN
    CASE h = "_EX9E" -> _EX9E(s, get_x(opcode))
      [] h = "_EXA1" -> _EXA1(s, get_x(opcode))
      [] OTHER -> Raise(s, "KeyError")

_FXKK(s, opcode) ==
    LET h == Lookup(misc, get_nn(opcode))
        x == get_x(opcode)
    IN
    CASE h = "_FX07" -> _FX07(s, x)
      [] h = "_FX0A" -> _FX0A(s, x)
      [] h = "_FX15" -> _FX15(s, x)
      [] h = "_FX18" -> _FX18(s, x)
      [] h = "_FX1E" -> _FX1E(s, x)
      [] h = "_FX29" -> _FX29(s, x)
      [] h = "_FX33" -> _FX33(s, x)
      [] h = "_FX55" -> _FX55(s, x)
      [] h = "_FX65" -> _FX65(s, x)
      [] OTHER -> Raise(s, "KeyError")

execute_opcode(s, opcode, rnd) ==
    LET s1 == [s EXCEPT !.operand = opcode]
        h == Lookup(opcodes, decode_opcode(opcode))
    IN
    CASE h = "_0KKK" -> _0KKK(s1, opcode)
      [] h = "_1NNN" -> _1NNN(s1, opcode)
      [] h = "_2NNN" -> _2NNN(s1, opcode)
      [] h = "_3XNN" -> _3XNN(s1, opcode)
      [] h = "_4XNN" -> _4XNN(s1, opcode)
      [] h = "_5XY0" -> _5XY0(s1, opcode)
      [] h = "_6XNN" -> _6XNN(s1, opcode)
      [] h = "_7XNN" -> _7XNN(s1, opcode)
      [] h = "_8XYK" -> _8XYK(s1, opcode)
      [] h = "_9XY0" -> _9XY0(s1, opcode)
      [] h = "_ANNN" -> _ANNN(s1, opcode)
      [] h = "_BNNN" -> _BNNN(s1, opcode)
      [] h = "_CXNN" -> _CXNN(s1, opcode, rnd)
      [] h = "_DXYN" -> _DXYN(s1, opcode)
      [] h = "_EXKK" -> _EXKK(s1, opcode)
      [] h = "_FXKK" -> _FXKK(s1, opcode)
      [] OTHER -> Raise(s1, "KeyError")

update_timers(s) ==
    [s EXCEPT !.delay = IF @ > 0 THEN @ - 1 ELSE @,
              !.sound = IF @ > 0 THEN @ - 1 ELSE @,
              !.beep = (s.sound > 0 /\ s.sound = 1)]

\* A cycle that ticks the timers whatever the handler did.
execute_cycle_always_ticking(s, rnd) ==
    IF FetchFaults(s) THEN Raise(s, "IndexError")
    ELSE update_timers(execute_opcode(s, fetch_opcode(s), rnd))

\* An exception leaves execute_cycle before the timers are touched; so does
\* a cycle whose FX0A has not returned yet.
\* An execute_cycle that updates the timers before it runs the instruction.
execute_cycle_ticking_first(s, rnd) ==
    IF FetchFaults(s) THEN Raise(s, "IndexError")
    ELSE
        LET r == execute_opcode(update_timers(s), fetch_opcode(s), rnd) IN
        IF r.err # "none" \/ r.waiting
        THEN [r EXCEPT !.delay = s.delay, !.sound = s.sound, !.beep = s.beep]
        ELSE r

execute_cycle(s, rnd) ==
    IF FetchFaults(s) THEN Raise(s, "IndexError")
    ELSE
        LET r == execute_opcode(s, fetch_opcode(s), rnd) IN
        IF r.err # "none" \/ r.waiting THEN r ELSE update_timers(r)

\* The handler the tables select for a word: the name of the method that
\* runs, or "KeyError" when a table has no entry for the word's key.
Handler(opcode) ==
    LET h == Lookup(opcodes, decode_opcode(opcode)) IN
    CASE h = "_0KKK" -> Lookup(subroutine, get_n(opcode))
      [] h = "_8XYK" -> Lookup(arthimetic, get_n(opcode))
      [] h = "_EXKK" -> Lookup(skip_keys, get_n(opcode))
      [] h = "_FXKK" -> Lookup(misc, get_nn(opcode))
      [] OTHER -> h

----------------------------------------------------------------------------
(* Program images.  An image is written as a sequence of 16-bit words; the *)
(* file holds each word big-endian.  Every image of the model ends with    *)
(* two words that jump to themselves, the usual way a CHIP-8 program       *)
(* stops, so that a run does not wander on through the zero bytes behind   *)
(* the image; the second is where a taken skip at the end lands.           *)

Bytes(words) ==
    [k \in 1 .. 2 * Len(words) |->
        IF k % 2 = 1 THEN words[(k + 1) \div 2] \div 256
        ELSE words[k \div 2] % 256]

\* The address of word number k (from 0) of the image.
Addr(k) == PROGRAM_COUNTER_START + 2 * k

Halted(words) ==
    words \o << \h1000 + Addr(Len(words)), \h1000 + Addr(Len(words) + 1) >>

Prog(words) == Bytes(Halted(words))

\* Register indices, register contents and immediates the images draw on.
Regs == {0, 1, 15}
Vals == {0, 1, \h80, \hFF}
FewVals == {0, 1, \hFF}
RandomBytes == {0, \h0F, \hAA, \hFF}

\* The most keys held down at once.
MaxKeysDown == 1

\* 6xaa 6ybb 8xyK: one register-register instruction on chosen operands;
\* K = 8 and K = 15 have no entry in the arthimetic table.
AluKeys == (0 .. 8) \cup {14, 15}
AluImages ==
    { Prog(<< \h6000 + 256 * x + a, \h6000 + 256 * y + b,
              \h8000 + 256 * x + 16 * y + k >>) :
        x \in Regs, y \in Regs, a \in Vals, b \in Vals, k \in AluKeys }

\* 6ybb 8yyE 6xaa 8xyK: VY doubled by a shift, then subtracted.
ShiftThenSubImages ==
    { Prog(<< \h6100 + b, \h811E, \h6000 + a, \h8010 + k >>) :
        a \in FewVals, b \in Vals, k \in {5, 7} }

\* 6xaa 6ybb and one skip: 3xNN, 4xNN, 5xyN, 9xyN.
SkipWords ==
    { c + nn : c \in {\h3000, \h4000}, nn \in FewVals }
    \cup { c + n : c \in {\h5000, \h9000}, n \in {0, 1} }
SkipImages ==
    { Prog(<< \h6000 + 256 * x + a, \h6000 + 256 * y + b,
              IF w < \h5000 THEN w + 256 * x ELSE w + 256 * x + 16 * y >>) :
        x \in Regs, y \in Regs, a \in FewVals, b \in FewVals, w \in SkipWords }

\* 6xkk and a word of class 0xE, with the low bytes 9E, A1 and others.
KeyImages ==
    { Prog(<< \h6000 + 256 * x + k, \hE000 + 256 * x + low >>) :
        x \in {0, 15}, k \in {0, 7, 15, 16},
        low \in {\h9E, \hA1, \h0E, \hF1, \h00, \h9F} }

\* For k = Len(targets): k nested calls and k returns.  Word 0 calls, word 1
\* is where the last return lands; subroutine j sits at words 2j, 2j + 1 and
\* calls subroutine j + 1, the innermost only returns.
NestedCalls(k) ==
    [w \in 1 .. 2 * k + 1 |->
        IF w = 2 THEN \h1000 + Addr(1)
        ELSE IF w = 2 * k + 1 THEN \h00EE
        ELSE IF w % 2 = 1 THEN \h2000 + Addr(w + 1)
        ELSE \h00EE]

NestedImage == [k \in 1 .. STACK |-> Prog(NestedCalls(k))]

CallImages ==
    { NestedImage[k] : k \in 1 .. STACK }
    \cup { Prog(<< \h2200 >>),            \* calls itself for ever
           Prog(<< \h00EE >>),            \* returns with nothing to return to
           Prog(<< \h2204, \h00EE, \h00EE >>) }

\* Jumps, into the image, below it, to odd addresses, to the last byte.
JumpImages ==
    { Prog(<< \h1000 + nnn >>) : nnn \in {\h100, \h202, \h203, \hFFE, \hFFF} }
    \cup { Prog(<< \h6000 + a, \hB000 + nnn >>) :
             a \in {0, 2, \h0F, \hFF}, nnn \in {\h202, \hFF0, \hFFF} }

\* Words no table has an entry for, and words only part of which is keyed.
UnkeyedWords == { \h8018, \h812F, \hF000, \hF1FF, \hE120, \h0121 }
OddImages ==
    { Prog(<< w >>) : w \in UnkeyedWords
                              \cup { \h0000, \h0230, \h00EF, \h5011, \h9012 } }
    \cup { Prog(<< \h6005, \hF015, \hF018, \h6100 + a, \hA123, w >>) :
             a \in FewVals, w \in UnkeyedWords }

\* The remaining instructions, each on a few operands.
OtherImages ==
    { Prog(<< \h6000 + 256 * x + a, \h7000 + 256 * x + nn >>) :
        x \in Regs, a \in Vals, nn \in FewVals }
    \cup { Prog(<< \hC000 + 256 * x + nn >>) : x \in Regs, nn \in {\h0F, \hFF} }
    \cup { Prog(<< \h6000 + a, \hF015, \hF018, \h6000, \hF107, \hF207 >>) :
             a \in {0, 1, 3} }
    \cup { Prog(<< \hF00A, \hFF0A >>) }
    \* registers filled from the font, and dumped over it
    \cup { Prog(<< \hA000, \hF265, \hA001, \hF255 >>) }
    \cup { Prog(<< \h6000 + a, \hA000 + nnn, \hF01E, \hF029 >>) :
             a \in FewVals, nnn \in {0, \h300, \hFFF} }
    \cup { Prog(<< \h6000 + a, \h6100 + a, \hA000 + nnn, w >>) :
             a \in {0, 1, \hF5}, nnn \in {\h300, \hFFD, \hFFE},
             w \in {\hF033, \hF155, \hF165, \hD015, \hD011} }
    \cup { Prog(<< \h6000 + a, \h6100 + b, \hA000, \hD015, \h00E0, \hD015,
                   \hD015 >>) :
             a \in {0, 60, 64}, b \in {0, 28, 32} }

\* A call, both timers started, a sprite drawn and three digits stored, and
\* then 6xnn and 7xnn.
FrameImages ==
    { Prog(<< \h2204, \h1202, \h6020, \hF015, \hF018, \hA000, \hD115,
              \hA300, \hF033, \h6000 + 256 * x + nn,
              \h7000 + 256 * x + nn >>) :
        x \in Regs, nn \in FewVals }

\* The font's 0 drawn at (a, b), then the font's 1 drawn twice at (a + d, b):
\* over the 0 for d = 0, beside it for d = 4; inside the grid, across its
\* right edge and across its bottom edge.
DrawImages ==
    { Prog(<< \h6000 + a, \h6100 + b, \hA000, \hD015, \h6000 + a + d,
              \hA005, \hD015, \hD015 >>) :
        a \in {0, 56, 62}, b \in {0, 27, 30}, d \in {0, 4} }
    \* the image's own first bytes as the sprite, drawn twice
    \cup { Prog(<< \h6003, \h6105, \hA200, \hD016, \hD016 >>),
    \* the position taken from VF, which the draw overwrites
           Prog(<< \h6F08, \h6102, \hA000, \hDF15, \hDF15 >>) }

\* A counted loop: I = 0xFFF, then V0 = 0xFF added to I as often as V1
\* says.
AddToIndexLoop(times) ==
    Prog(<< \hAFFF, \h60FF, \h6100 + times, \hF01E, \h71FF, \h3100,
            \h1000 + Addr(3) >>)
LoopImages == { AddToIndexLoop(times) : times \in {1, 241} }

\* 61FF 811E leaves V1 = 0x1FE and 6000 8015 then V0 = 256 + (0 - 0x1FE) =
\* -254.  With that V0: I = 0xFD + V0 = -1 and an instruction that reads or
\* writes memory at I; a jump B0FC to 0xFC + V0 = -2; both timers set.
NegativeImages ==
    { Prog(<< \h61FF, \h811E, \h6000, \h8015, \hA0FD, \hF01E, w >>) :
        w \in {\hF033, \hF055, \hF065, \hD011} }
    \cup { Prog(<< \h61FF, \h811E, \h6000, \h8015, \hB0FC >>),
            Prog(<< \h61FF, \h811E, \h6000, \h8015, \hF015, \hF018 >>) }

\* The programs run under the main loop: the font's 0 drawn, the display
\* cleared, the sprite drawn twice more; both timers set and read, a key
\* waited for and then tested.
HostImages ==
    { Prog(<< \h6000 + a, \h6100 + b, \hA000, \hD015, \h00E0, \hD015,
              \hD015 >>) :
        a \in {0, 60}, b \in {0, 28} }
    \cup { Prog(<< \h6000 + a, \hF015, \hF018, \hF107, \hF00A, \hE09E,
                   \hE0A1 >>) :
             a \in {0, 1, 3} }
    \cup { Prog(<< \hC1FF, \hA300, \hF033, \hF165, \h0000 >>) }

\* Both timers started, then a key waited for and the delay timer read.
WaitImages == { Prog(<< \h6003, \hF015, \hF018, \hF10A, \hF207 >>) }

\* V0..V2 set and dumped at I, I set again, V0..V2 overwritten, V0..V2
\* loaded from I.
RoundTripImages ==
    { Prog(<< \h6000 + a, \h6100 + b, \h6200 + c, \hA000 + at, \hF255,
              \hA000 + at, \h6000 + c, \h61AA, \h6200 + a, \hF265 >>) :
        a \in {\h11, \hFF}, b \in {\h22}, c \in {0, \h33},
        at \in {\h300, \hFFB} }

\* The delay timer set and read while it runs.
ReadTimerImages ==
    { Prog(<< \h6000 + a, \hF015, \hF107, \hF018, \hF207 >>) :
        a \in {2, 5} }

\* A subroutine that draws, then returns or clears through a class-0 word
\* with other bits set; a jump into the zero-filled memory near its end;
\* register skips with a low nibble that is not 0.
DispatchImages ==
    { Prog(<< \h2206, \h1202, \h0000, \hA000, \hD005, w >>) :
        w \in {\h00EE, \h0FBE, \h012E, \h0000, \h0FB0, \h0120} }
    \cup { Prog(<< \hA000, \hD005, \h1FF0 >>) }
    \cup { Prog(<< \h6001, w >>) : w \in {\h5013, \h901F} }

Images ==
    AluImages \cup ShiftThenSubImages \cup SkipImages \cup KeyImages
    \cup CallImages \cup JumpImages \cup OddImages \cup OtherImages
    \cup FrameImages \cup DrawImages \cup LoopImages \cup NegativeImages
    \cup WaitImages \cup RoundTripImages \cup ReadTimerImages
    \cup DispatchImages

----------------------------------------------------------------------------
(* The machine.                                                            *)

\* No event taken yet.
NoEvent == [type |-> "none", key |-> "none", held |-> {}]

\* CPU() and load_rom(image); nothing is on the window yet.
Constructed(images) ==
    /\ rom \in images
    /\ memory = Empty
    /\ v = [r \in 0 .. REGISTERS - 1 |-> 0]
    /\ i = 0
    /\ pc = PROGRAM_COUNTER_START
    /\ stack = [k \in 0 .. STACK - 1 |-> 0]
    /\ sp = 0
    /\ delay = 0
    /\ sound = 0
    /\ gfx = Empty
    /\ shouldDraw = FALSE
    /\ keys = [k \in 0 .. KEYS - 1 |-> FALSE]
    /\ operand = 0
    /\ waitreg = 0
    /\ status = "running"
    /\ beep = FALSE
    /\ screen = Empty
    /\ due = FALSE
    /\ event = NoEvent

\* A word whose fields nobody has asked for yet.
Undecoded(w) ==
    [word |-> w, returned |-> FALSE, class |-> 0, nnn |-> 0, nn |-> 0,
     n |-> 0, x |-> 0, y |-> 0]

Init == Constructed(Images) /\ host = "none" /\ decoded = Undecoded(0)

\* The object after a call becomes the state.  A call that returns hands
\* control back to the main loop, if one runs, at its redraw test.
Commit(r) ==
    /\ memory' = r.memory
    /\ v' = r.v
    /\ i' = r.i
    /\ pc' = r.pc
    /\ stack' = r.stack
    /\ sp' = r.sp
    /\ delay' = r.delay
    /\ sound' = r.sound
    /\ gfx' = r.gfx
    /\ shouldDraw' = r.shouldDraw
    /\ keys' = r.keys
    /\ operand' = r.operand
    /\ waitreg' = r.waitreg
    /\ status' = IF r.err # "none" THEN r.err
                 ELSE IF r.waiting THEN "waiting" ELSE "running"
    /\ beep' = r.beep
    /\ host' = IF host = "none" \/ r.err # "none" \/ r.waiting THEN host
               ELSE "draw"
    /\ due' = IF r.err # "none" \/ r.waiting THEN due ELSE FALSE
    /\ event' = r.event
    /\ UNCHANGED <<rom, screen, decoded>>

\* The word the next cycle fetches runs handler h.
Fetches(h) ==
    /\ status = "running"
    /\ ~FetchFaults(Self)
    /\ Handler(fetch_opcode(Self)) = h

FetchError ==
    /\ status = "running"
    /\ FetchFaults(Self)
    /\ LET r == execute_cycle(Self, 0) IN Commit(r)

Unrecognized ==
    /\ Fetches("KeyError")
    /\ LET r == execute_cycle(Self, 0) IN Commit(r)
Cycle_00E0 ==
    /\ Fetches("_00E0")
    /\ LET r == execute_cycle(Self, 0) IN Commit(r)
Cycle_00EE ==
    /\ Fetches("_00EE")
    /\ LET r == execute_cycle(Self, 0) IN Commit(r)
Cycle_1NNN ==
    /\ Fetches("_1NNN")
    /\ LET r == execute_cycle(Self, 0) IN Commit(r)
Cycle_2NNN ==
    /\ Fetches("_2NNN")
    /\ LET r == execute_cycle(Self, 0) IN Commit(r)
Cycle_3XNN ==
    /\ Fetches("_3XNN")
    /\ LET r == execute_cycle(Self, 0) IN Commit(r)
Cycle_4XNN ==
    /\ Fetches("_4XNN")
    /\ LET r == execute_cycle(Self, 0) IN Commit(r)
Cycle_5XY0 ==
    /\ Fetches("_5XY0")
    /\ LET r == execute_cycle(Self, 0) IN Commit(r)
Cycle_6XNN ==
    /\ Fetches("_6XNN")
    /\ LET r == execute_cycle(Self, 0) IN Commit(r)
Cycle_7XNN ==
    /\ Fetches("_7XNN")
    /\ LET r == execute_cycle(Self, 0) IN Commit(r)
Cycle_8XY0 ==
    /\ Fetches("_8XY0")
    /\ LET r == execute_cycle(Self, 0) IN Commit(r)
Cycle_8XY1 ==
    /\ Fetches("_8XY1")
    /\ LET r == execute_cycle(Self, 0) IN Commit(r)
Cycle_8XY2 ==
    /\ Fetches("_8XY2")
    /\ LET r == execute_cycle(Self, 0) IN Commit(r)
Cycle_8XY3 ==
    /\ Fetches("_8XY3")
    /\ LET r == execute_cycle(Self, 0) IN Commit(r)
Cycle_8XY4 ==
    /\ Fetches("_8XY4")
    /\ LET r == execute_cycle(Self, 0) IN Commit(r)
Cycle_8XY5 ==
    /\ Fetches("_8XY5")
    /\ LET r == execute_cycle(Self, 0) IN Commit(r)
Cycle_8XY6 ==
    /\ Fetches("_8XY6")
    /\ LET r == execute_cycle(Self, 0) IN Commit(r)
Cycle_8XY7 ==
    /\ Fetches("_8XY7")
    /\ LET r == execute_cycle(Self, 0) IN Commit(r)
Cycle_8XYE ==
    /\ Fetches("_8XYE")
    /\ LET r == execute_cycle(Self, 0) IN Commit(r)
Cycle_9XY0 ==
    /\ Fetches("_9XY0")
    /\ LET r == execute_cycle(Self, 0) IN Commit(r)
Cycle_ANNN ==
    /\ Fetches("_ANNN")
    /\ LET r == execute_cycle(Self, 0) IN Commit(r)
Cycle_BNNN ==
    /\ Fetches("_BNNN")
    /\ LET r == execute_cycle(Self, 0) IN Commit(r)
Cycle_CXNN ==
    /\ Fetches("_CXNN")
    /\ \E rnd \in RandomBytes :
        LET r == execute_cycle(Self, rnd) IN Commit(r)
Cycle_DXYN ==
    /\ Fetches("_DXYN")
    /\ LET r == execute_cycle(Self, 0) IN Commit(r)
Cycle_EX9E ==
    /\ Fetches("_EX9E")
    /\ LET r == execute_cycle(Self, 0) IN Commit(r)
Cycle_EXA1 ==
    /\ Fetches("_EXA1")
    /\ LET r == execute_cycle(Self, 0) IN Commit(r)
Cycle_FX07 ==
    /\ Fetches("_FX07")
    /\ LET r == execute_cycle(Self, 0) IN Commit(r)
Cycle_FX0A ==
    /\ Fetches("_FX0A")
    /\ LET r == execute_cycle(Self, 0) IN Commit(r)
Cycle_FX15 ==
    /\ Fetches("_FX15")
    /\ LET r == execute_cycle(Self, 0) IN Commit(r)
Cycle_FX18 ==
    /\ Fetches("_FX18")
    /\ LET r == execute_cycle(Self, 0) IN Commit(r)
Cycle_FX1E ==
    /\ Fetches("_FX1E")
    /\ LET r == execute_cycle(Self, 0) IN Commit(r)
Cycle_FX29 ==
    /\ Fetches("_FX29")
    /\ LET r == execute_cycle(Self, 0) IN Commit(r)
Cycle_FX33 ==
    /\ Fetches("_FX33")
    /\ LET r == execute_cycle(Self, 0) IN Commit(r)
Cycle_FX55 ==
    /\ Fetches("_FX55")
    /\ LET r == execute_cycle(Self, 0) IN Commit(r)
Cycle_FX65 ==
    /\ Fetches("_FX65")
    /\ LET r == execute_cycle(Self, 0) IN Commit(r)

\* Inside FX0A: a KEYDOWN event.  The event itself may be for any key, one
\* of the sixteen or another: the loop looks only at the keys that
\* pygame.key.get_pressed() reports held.  With none of the sixteen held
\* the loop goes on waiting.  Otherwise the loop over KEY_MAP.items() leaves
\* in VX the value of the held key it meets last, which depends on the
\* dict's order: any held key may be the one.  The handler then returns and
\* the cycle ticks the timers.
KeyDown ==
    /\ status = "waiting"
    /\ \E key \in {"mapped", "unmapped"} :
       \E held \in SUBSET KEY_MAP :
        LET ev == [type |-> "KEYDOWN", key |-> key, held |-> held] IN
        /\ Cardinality(held) <= MaxKeysDown
        /\ \/ /\ held = {}
              /\ Commit([Self EXCEPT !.event = ev, !.waiting = TRUE])
           \/ \E val \in held :
                LET r == [Self EXCEPT !.v[waitreg] = val, !.pc = @ + 2,
                                      !.event = ev] IN
                Commit(update_timers(r))

\* Inside FX0A: an event that is neither KEYDOWN nor QUIT.
OtherEvent ==
    /\ status = "waiting"
    /\ Commit([Self EXCEPT !.event = [NoEvent EXCEPT !.type = "other"],
                            !.waiting = TRUE])

\* Inside FX0A: pygame.QUIT calls exit().
Quit ==
    /\ status = "waiting"
    /\ status' = "exit"
    /\ event' = [NoEvent EXCEPT !.type = "QUIT"]
    /\ UNCHANGED <<rom, memory, v, i, pc, stack, sp, delay, sound, gfx,
                   shouldDraw, keys, operand, waitreg, beep, host, screen,
                   due, decoded>>

\* The key vector is written from outside between cycles (the tests assign
\* cpu.keys[k] = True).  Only EX9E and EXA1 read it, so it is enough to
\* write it right before a word of class 0xE is fetched.
PressKey ==
    /\ status = "running"
    /\ ~FetchFaults(Self)
    /\ decode_opcode(fetch_opcode(Self)) = \hE000
    /\ Cardinality({k \in 0 .. KEYS - 1 : keys[k]}) < MaxKeysDown
    /\ \E k \in 0 .. KEYS - 1 :
        /\ ~keys[k]
        /\ keys' = [keys EXCEPT ![k] = TRUE]
    /\ UNCHANGED <<rom, memory, v, i, pc, stack, sp, delay, sound, gfx,
                   shouldDraw, operand, waitreg, status, beep, host,
                   screen, due, event, decoded>>

Next ==
    \/ FetchError
    \/ Unrecognized
    \/ Cycle_00E0
    \/ Cycle_00EE
    \/ Cycle_1NNN
    \/ Cycle_2NNN
    \/ Cycle_3XNN
    \/ Cycle_4XNN
    \/ Cycle_5XY0
    \/ Cycle_6XNN
    \/ Cycle_7XNN
    \/ Cycle_8XY0
    \/ Cycle_8XY1
    \/ Cycle_8XY2
    \/ Cycle_8XY3
    \/ Cycle_8XY4
    \/ Cycle_8XY5
    \/ Cycle_8XY6
    \/ Cycle_8XY7
    \/ Cycle_8XYE
    \/ Cycle_9XY0
    \/ Cycle_ANNN
    \/ Cycle_BNNN
    \/ Cycle_CXNN
    \/ Cycle_DXYN
    \/ Cycle_EX9E
    \/ Cycle_EXA1
    \/ Cycle_FX07
    \/ Cycle_FX0A
    \/ Cycle_FX15
    \/ Cycle_FX18
    \/ Cycle_FX1E
    \/ Cycle_FX29
    \/ Cycle_FX33
    \/ Cycle_FX55
    \/ Cycle_FX65
    \/ KeyDown
    \/ OtherEvent
    \/ Quit
    \/ PressKey

Spec == Init /\ [][Next]_vars

----------------------------------------------------------------------------
(* The main loop of src/chip8/chip8.py around the same object.             *)

HostInit ==
    Constructed(HostImages) /\ host = "cycle" /\ decoded = Undecoded(0)

\* cpu.execute_cycle()
HostCycle ==
    /\ host = "cycle"
    /\ status = "running"
    /\ \E rnd \in RandomBytes :
        LET r == execute_cycle(Self, rnd) IN Commit(r)

\* A redraw that leaves the flag set.
HostDraw_keeping_flag ==
    /\ host = "draw"
    /\ status = "running"
    /\ screen' = IF shouldDraw THEN gfx ELSE screen
    /\ host' = "events"
    /\ UNCHANGED <<rom, memory, v, i, pc, stack, sp, delay, sound, gfx,
                   shouldDraw, keys, operand, waitreg, status, beep, due,
                   event, decoded>>

\* if cpu.shouldDraw: draw(screen, cpu.gfx); cpu.shouldDraw = False
HostDraw ==
    /\ host = "draw"
    /\ status = "running"
    /\ \/ shouldDraw /\ screen' = gfx /\ shouldDraw' = FALSE
       \/ ~shouldDraw /\ UNCHANGED <<screen, shouldDraw>>
    /\ host' = "events"
    /\ UNCHANGED <<rom, memory, v, i, pc, stack, sp, delay, sound, gfx, keys,
                   operand, waitreg, status, beep, due, event, decoded>>

\* for event in pygame.event.get(): cpu.update_keys(...).  With no event
\* queued the loop body does not run and sleep(DELAY) ends the iteration,
\* during which the current 60 Hz period may run out.  With an event queued
\* the body looks up cpu.update_keys, which CPU does not define: the
\* AttributeError ends the program before the event's type is looked at.
HostEvents ==
    /\ host = "events"
    /\ status = "running"
    /\ \/ /\ host' = "cycle"
          /\ due' \in {due, TRUE}
          /\ UNCHANGED status
       \/ /\ status' = "AttributeError"
          /\ UNCHANGED <<host, due>>
    /\ UNCHANGED <<rom, memory, v, i, pc, stack, sp, delay, sound, gfx,
                   shouldDraw, keys, operand, waitreg, beep, screen, event,
                   decoded>>

HostNext ==
    \/ HostCycle
    \/ KeyDown
    \/ OtherEvent
    \/ Quit
    \/ HostDraw
    \/ HostEvents

HostSpec == HostInit /\ [][HostNext]_vars

----------------------------------------------------------------------------
(* The field extractors called on their own, on any 16-bit word.           *)

Words == 0 .. 65535

DecodeInit ==
    /\ Constructed({Prog(<< >>)})
    /\ host = "none"
    /\ \E w \in Words : decoded = Undecoded(w)

\* decode_opcode(w), get_nnn(w), get_nn(w), get_n(w), get_x(w), get_y(w):
\* each returns a value and assigns nothing.
Decode ==
    /\ decoded' = [word |-> decoded.word, returned |-> TRUE,
                   class |-> decode_opcode(decoded.word),
                   nnn |-> get_nnn(decoded.word),
                   nn |-> get_nn(decoded.word),
                   n |-> get_n(decoded.word),
                   x |-> get_x(decoded.word),
                   y |-> get_y(decoded.word)]
    /\ UNCHANGED <<rom, memory, v, i, pc, stack, sp, delay, sound, gfx,
                   shouldDraw, keys, operand, waitreg, status, beep, host,
                   screen, due, event>>

DecodeNext == Decode

DecodeSpec == DecodeInit /\ [][DecodeNext]_vars

----------------------------------------------------------------------------
(* Properties.  A step that is one call of execute_cycle starts from a     *)
(* running machine and leaves the keys alone; Word is the word it fetches. *)

CycleStep == status = "running" /\ keys' = keys
Word == fetch_opcode(Self)
Runs(class) ==
    CycleStep /\ ~FetchFaults(Self) /\ decode_opcode(Word) = class
Returns == Runs(\h0000) /\ get_n(Word) = \h000E

\* C1: in every reachable state each of the registers V0..VF holds a value
\* in [0,255].
C1_RegistersAreBytes == \A r \in 0 .. REGISTERS - 1 : v[r] \in 0 .. 255

\* C2, as stated: in every reachable state the program counter is an even
\* address in [0x200, 4096).
C2_PcEvenInProgramArea ==
    pc % 2 = 0 /\ PROGRAM_COUNTER_START <= pc /\ pc < MEMORY

C2_PcStep ==
    /\ (~FetchFaults(Self) /\ CycleStep /\ status' = "running") =>
         LET w == Word
             class == decode_opcode(w)
         IN
         CASE class \in {\h1000, \h2000} -> pc' = get_nnn(w)
           [] class = \hB000 -> pc' = get_nnn(w) + v[0]
           [] class = \h0000 /\ get_n(w) = \h000E ->
                sp \in 1 .. STACK => pc' = stack[sp - 1] + 2
           [] OTHER -> pc' \in {pc + 2, pc + 4}
    /\ (status = "waiting" /\ status' = "running") => pc' = pc + 2

\* C2, amended: a jump 1NNN and a call 2NNN leave the program counter at
\* NNN and BNNN leaves it at NNN + V0, whatever that address is (odd, below
\* 0x200, beyond the memory); a return from a non-empty stack leaves it at
\* the stored address plus 2; every other instruction that completes adds 2
\* or 4 to it.
C2_PcTransfers == [][C2_PcStep]_vars

\* 1100 has run: the program counter is below the program area.
C2_JumpedBelowProgramArea ==
    operand = \h1100 /\ pc = \h100 /\ status = "running"

C3_Step ==
    /\ sp' \in 0 .. STACK
    /\ (Returns /\ sp = 0) =>
         status' \notin {"running", "waiting"} /\ sp' = sp /\ pc' = pc

\* C3: the stack pointer stays in [0,16]; a return executed with sp = 0
\* ends the run with an error and leaves sp and the program counter as they
\* were.
C3_ReturnOnEmptyStackIsFatal == [][C3_Step]_vars

C4_Step ==
    (Runs(\h2000) /\ sp = STACK) =>
        status' = "IndexError" /\ sp' = sp /\ pc' = pc /\ stack' = stack

\* C4: a call executed with sp = 16 ends the run with an error and leaves
\* sp, the program counter and the 16 stack entries as they were.
C4_CallOnFullStackFails == [][C4_Step]_vars

\* The seventeenth nested call has failed.
C4_Overflowed ==
    status = "IndexError" /\ sp = STACK /\ decode_opcode(operand) = \h2000

C5_CallStep ==
    (Runs(\h2000) /\ sp \in 0 .. STACK - 1) =>
        /\ stack' = [stack EXCEPT ![sp] = pc]
        /\ sp' = sp + 1
        /\ pc' = get_nnn(Word)

C5_ReturnStep ==
    (Returns /\ sp \in 1 .. STACK) =>
        sp' = sp - 1 /\ pc' = stack[sp - 1] + 2 /\ stack' = stack

\* In the image of k nested calls, call number j sits at word 2(j - 1): a
\* return that leaves sp = m has resumed behind call number m + 1.
C5_Resumed ==
    \A k \in 1 .. STACK :
        (rom = NestedImage[k] /\ operand = \h00EE /\ status = "running") =>
            pc = Addr(2 * sp) + 2

\* C5: a call at p to NNN stores p in stack[sp], adds 1 to sp, sets the
\* program counter to NNN and changes no other stack entry; a return takes
\* 1 from sp and resumes at the stored address plus 2; after k nested calls,
\* k in 1..16, each return resumes 2 behind its matching call, the last one
\* with sp back at 0 and 2 behind the first call.
C5_CallReturnLifo == [][C5_CallStep /\ C5_ReturnStep /\ C5_Resumed']_vars

\* Sixteen nested calls and sixteen returns have run.
C5_AllReturned ==
    /\ rom = NestedImage[STACK]
    /\ operand = \h00EE
    /\ sp = 0
    /\ pc = Addr(0) + 2
    /\ stack[STACK - 1] = Addr(2 * (STACK - 1))

\* The words whose class or sub-key has no handler: classes 0 and 8 are
\* keyed by the low nibble, class F by the low byte, class E by the low
\* nibble.
C6_Unregistered(w) ==
    \/ decode_opcode(w) = \h0000 /\ w % 16 \notin {0, 14}
    \/ decode_opcode(w) = \h8000 /\ w % 16 \notin (0 .. 7) \cup {14}
    \/ decode_opcode(w) = \hE000 /\ w % 16 \notin {1, 14}
    \/ decode_opcode(w) = \hF000 /\
         w % 256 \notin {\h07, \h0A, \h15, \h18, \h1E, \h29, \h33, \h55, \h65}

C6_Step ==
    (CycleStep /\ ~FetchFaults(Self) /\ C6_Unregistered(Word)) =>
        /\ status' = "KeyError"
        /\ pc' = pc /\ v' = v /\ i' = i /\ memory' = memory
        /\ stack' = stack /\ sp' = sp /\ gfx' = gfx
        /\ delay' = delay /\ sound' = sound

\* C6: a word whose class or sub-key has no handler ends the run with an
\* error; the program counter, the registers, I, the memory, the stack, the
\* display and both timers are as they were before the cycle.
C6_UnregisteredWordFails == [][C6_Step]_vars

\* 8018 has failed while both timers were running.
C6_FailedWithTimersRunning ==
    /\ status = "KeyError" /\ operand = \h8018
    /\ delay > 0 /\ sound > 0 /\ i = \h123 /\ v[1] = \hFF

C7_Step ==
    /\ (Runs(\hE000) /\ get_nn(Word) \notin {\h9E, \hA1}) =>
         status' = "KeyError"
    /\ (Runs(\hF000) /\ get_nn(Word) \notin DOMAIN misc) =>
         status' = "KeyError"

\* C7: a word of class 0xE whose low byte is neither 0x9E nor 0xA1, and a
\* word of class 0xF whose low byte has no handler, fails as an unrecognized
\* opcode.
C7_LowByteSelectsHandler == [][C7_Step]_vars

C8_Skip(condition) ==
    /\ pc' = IF condition THEN pc + 4 ELSE pc + 2
    /\ v' = v /\ i' = i /\ memory' = memory /\ gfx' = gfx

C8_Step ==
    LET w == Word
        x == get_x(w)
        y == get_y(w)
    IN
    /\ Runs(\h3000) => C8_Skip(v[x] = get_nn(w))
    /\ Runs(\h4000) => C8_Skip(v[x] # get_nn(w))
    /\ (Runs(\h5000) /\ get_n(w) = 0) => C8_Skip(v[x] = v[y])
    /\ (Runs(\h9000) /\ get_n(w) = 0) => C8_Skip(v[x] # v[y])
    /\ (Runs(\hE000) /\ get_nn(w) = \h9E /\ v[x] \in 0 .. KEYS - 1) =>
         C8_Skip(keys[v[x]])
    /\ (Runs(\hE000) /\ get_nn(w) = \hA1 /\ v[x] \in 0 .. KEYS - 1) =>
         C8_Skip(~keys[v[x]])

\* C8: 3XNN, 4XNN, 5XY0, 9XY0, EX9E and EXA1 add 4 to the program counter
\* when their condition holds and 2 when it does not, and change no
\* register, no memory cell and no pixel.
C8_SkipsAdvanceBy4Or2 == [][C8_Step]_vars

\* E09E has skipped on key 0 held down.
C8_KeySkipTaken ==
    /\ operand = \hE09E /\ v[0] = 0 /\ keys[0]
    /\ pc = Addr(1) + 4 /\ status = "running"

C9_Step ==
    (Runs(\h8000) /\ get_n(Word) = 4) =>
        LET x == get_x(Word)
            y == get_y(Word)
            sum == v[x] + v[y]
        IN
        /\ v'[15] = IF sum > 255 THEN 1 ELSE 0
        /\ x # 15 => v'[x] = sum % 256

\* C9: 8XY4 leaves VF = 1 if VX + VY, taken before the instruction, exceeds
\* 255 and VF = 0 otherwise, and for X other than 0xF leaves VX at that sum
\* modulo 256; for all X and Y, 0xF included.
C9_AddSetsCarry == [][C9_Step]_vars

C10_Difference(x, y, minuend, subtrahend) ==
    /\ v'[15] = IF minuend < subtrahend THEN 0 ELSE 1
    /\ x # 15 => v'[x] = (minuend - subtrahend) % 256
    /\ (y # x /\ y # 15) => v'[y] = v[y]
    /\ pc' = pc + 2

C10_Step ==
    LET x == get_x(Word)
        y == get_y(Word)
    IN
    /\ (Runs(\h8000) /\ get_n(Word) = 5) => C10_Difference(x, y, v[x], v[y])
    /\ (Runs(\h8000) /\ get_n(Word) = 7) => C10_Difference(x, y, v[y], v[x])

\* C10: 8XY5 leaves VX = (VX - VY) mod 256 and VF = 0 if VX < VY, else 1;
\* 8XY7 leaves VX = (VY - VX) mod 256 and VF = 0 if VY < VX, else 1; VY is
\* as before when Y is neither X nor 0xF; the program counter advances by 2.
C10_SubtractSetsBorrow == [][C10_Step]_vars

C11_Shifted(x, y, flag, result) ==
    /\ v'[15] = flag
    /\ v'[y] = result
    /\ v'[x] = result
    /\ pc' = pc + 2

C11_Step ==
    LET x == get_x(Word)
        y == get_y(Word)
    IN
    /\ (Runs(\h8000) /\ get_n(Word) = 6 /\ x # 15 /\ y # 15) =>
         C11_Shifted(x, y, v[y] % 2, v[y] \div 2)
    /\ (Runs(\h8000) /\ get_n(Word) = 14 /\ x # 15 /\ y # 15) =>
         C11_Shifted(x, y, (v[y] \div 128) % 2, (2 * v[y]) % 256)

\* C11: for X and Y other than 0xF, 8XY6 leaves in VF the lowest bit VY
\* held and in VY and VX that value shifted right by one bit; 8XYE leaves in
\* VF the highest bit VY held and in VY and VX that value shifted left by
\* one bit as an 8-bit value; both add 2 to the program counter.
C11_ShiftsStoreBitThenShift == [][C11_Step]_vars

C12_Step ==
    /\ (Runs(\h8000) /\ Word = \h8016 /\ v[1] = \h01) =>
         v'[15] = \h01 /\ v'[1] = \h02 /\ v'[0] = \h02 /\ pc' = pc + 2
    /\ (Runs(\h8000) /\ Word = \h801E /\ v[1] = \h80) =>
         v'[15] = \h01 /\ v'[1] = \h40 /\ v'[0] = \h40 /\ pc' = pc + 2

\* C12: 8016 run with V1 = 0x01 leaves VF = 0x01, V1 = 0x02 and V0 = 0x02;
\* 801E run with V1 = 0x80 leaves VF = 0x01, V1 = 0x40 and V0 = 0x40; each
\* adds 2 to the program counter (the values test_8XY6 and test_8XYE pin).
C12_ShiftsAgreeWithTests == [][C12_Step]_vars

C13_Step ==
    Runs(\h7000) =>
        LET x == get_x(Word) IN
        /\ v' = [v EXCEPT ![x] = (v[x] + get_nn(Word)) % 256]
        /\ pc' = pc + 2

\* C13: 7XNN leaves VX = (VX + NN) mod 256 and every other register as it
\* was (VF too when X is not 0xF), and adds 2 to the program counter.
C13_AddImmediateWraps == [][C13_Step]_vars

\* 7001 has run on V0 = 0xFF.
C13_Wrapped ==
    /\ rom = Prog(<< \h60FF, \h7001 >>)
    /\ operand = \h7001 /\ v[0] = 0 /\ v[15] = 0 /\ pc = Addr(2)

\* What update_timers leaves of a timer.
Ticked(timer) == IF timer > 0 THEN timer - 1 ELSE timer

C14_Step ==
    Runs(\h6000) =>
        LET x == get_x(Word)
            r == _6XNN(Self, Word)
        IN
        /\ v' = [v EXCEPT ![x] = get_nn(Word)]
        /\ pc' = pc + 2
        /\ i' = i /\ stack' = stack /\ sp' = sp
        /\ memory' = memory /\ gfx' = gfx
        /\ r.delay = delay /\ r.sound = sound
        /\ delay' = Ticked(delay) /\ sound' = Ticked(sound)

\* C14: 6XNN leaves VX = NN, adds 2 to the program counter and changes no
\* other register, nor I, the stack, the memory or the display; the handler
\* leaves both timers as they were, so that after the cycle they differ from
\* before by the cycle's tick alone.
C14_LoadImmediateFrame == [][C14_Step]_vars

\* 61FF has run with a return address on the stack, both timers running,
\* pixels set and digits stored.
C14_LoadedAmidState ==
    /\ rom \in FrameImages
    /\ operand = \h61FF /\ v[1] = \hFF /\ v[0] = \h20
    /\ sp = 1 /\ delay > 0 /\ sound > 0 /\ i = \h300
    /\ gfx # Empty /\ memory # Empty

\* The display as a grid: pixel p of the buffer is column p mod 64 of row
\* p div 64.
Pixels == 0 .. WIDTH * HEIGHT - 1
Column(p) == p % WIDTH
Row(p) == p \div WIDTH
Pixel(p) == ReadGfx(Self, p)

\* Bit c, the highest first, of the sprite byte of row r.
SpriteBit(r, c) == (ReadMemory(Self, i + r) \div (2 ^ (7 - c))) % 2

\* The sprite bit that falls on pixel p when the sprite is put at column
\* left, row top; 0 where the sprite does not reach.
SpriteAt(p, left, top, height) ==
    IF /\ Column(p) - left \in 0 .. 7
       /\ Row(p) - top \in 0 .. height - 1
    THEN SpriteBit(Row(p) - top, Column(p) - left)
    ELSE 0

\* The sprite of the word about to run lies inside the grid and inside the
\* memory.
InsideGrid ==
    /\ v[get_x(Word)] \in 0 .. WIDTH - 8
    /\ v[get_y(Word)] \in 0 .. HEIGHT - get_n(Word)
    /\ i \in 0 .. MEMORY - get_n(Word)

C15_Step ==
    (Runs(\hD000) /\ InsideGrid) =>
        LET left == v[get_x(Word)]
            top == v[get_y(Word)]
            height == get_n(Word)
        IN
        /\ \A p \in Pixels :
             Pixel(p)' = (Pixel(p) + SpriteAt(p, left, top, height)) % 2
        /\ v'[15] = IF \E p \in Pixels :
                          Pixel(p) = 1 /\ SpriteAt(p, left, top, height) = 1
                    THEN 1 ELSE 0
        /\ shouldDraw'
        /\ i' = i /\ memory' = memory
        /\ pc' = pc + 2

\* C15: DXYN with the sprite inside the grid XORs bit c, the highest first,
\* of memory[I + r] into the pixel at column VX + c of row VY + r and
\* changes no other pixel; VF is 1 if a pixel went from 1 to 0 and 0
\* otherwise; the redraw flag is set, I and the memory are as before and the
\* program counter is 2 further.
C15_DrawXorsSprite == [][C15_Step]_vars

\* The font's 1 has been drawn over the font's 0 at (0, 0): 4 of the 8 set
\* bits of the 1 met a set pixel.
C15_DrawnOverSprite ==
    /\ rom \in DrawImages
    /\ operand = \hD015 /\ pc = Addr(7) /\ i = 5
    /\ v[0] = 0 /\ v[1] = 0 /\ v[15] = 1
    /\ shouldDraw
    /\ Cardinality({p \in Pixels : Pixel(p) = 1}) = 14

C16_Step ==
    LET left == v[get_x(Word)]
        top == v[get_y(Word)]
        height == get_n(Word)
    IN
    (/\ Runs(\hD000)
     /\ left \in 0 .. 255 /\ top \in 0 .. 255
     /\ i \in 0 .. MEMORY - height) =>
        /\ status' = "running"
        /\ \A p \in Pixels :
             Pixel(p)' # Pixel(p) =>
                 \E c \in 0 .. 7, r \in 0 .. height - 1 :
                     /\ Column(p) = (left + c) % WIDTH
                     /\ Row(p) = (top + r) % HEIGHT

\* C16: for VX and VY in [0,255] and every N, DXYN completes without an
\* error and changes only pixels at column VX + c of row VY + r, c in 0..7,
\* r in 0..N-1, each taken around the edge of the 64x32 grid (or dropped);
\* what reaches past the right edge changes no pixel of the row below.
C16_DrawStaysInItsRows == [][C16_Step]_vars

C17_Step ==
    (/\ Runs(\hD000) /\ InsideGrid
     /\ get_x(Word) # 15 /\ get_y(Word) # 15) =>
        LET again == _DXYN(Self', Word) IN
        /\ again.err = "none"
        /\ again.gfx = gfx
        /\ (\E p \in Pixels : Pixel(p) = 0 /\ Pixel(p)' = 1) =>
               again.v[15] = 1

\* C17: after a draw with the sprite inside the grid and position registers
\* other than VF, the same draw run once more leaves the display as it was
\* before the first, whatever it held, and leaves VF = 1 when the first
\* draw turned a pixel on.
C17_DrawTwiceRestores == [][C17_Step]_vars

\* The font's 1 has been drawn twice beside the font's 0: the 14 pixels of
\* the 0 are what is left, and the second draw met set pixels.
C17_DrawnTwice ==
    /\ rom \in DrawImages
    /\ operand = \hD015 /\ pc = Addr(8) /\ i = 5
    /\ v[0] = 4 /\ v[1] = 0 /\ v[15] = 1
    /\ {p \in Pixels : Pixel(p) = 1}
         = {p \in Pixels :
                /\ Row(p) \in 0 .. 4 /\ Column(p) \in 0 .. 7
                /\ (FONTSET[Row(p) + 1] \div (2 ^ (7 - Column(p)))) % 2 = 1}

\* The memory as a list of MEMORY cells.
Addresses == 0 .. MEMORY - 1
Memory(a) == ReadMemory(Self, a)

C18_Step ==
    LET x == get_x(Word) IN
    (/\ Runs(\hF000) /\ get_nn(Word) = \h33
     /\ v[x] \in 0 .. 255 /\ i \in 0 .. MEMORY - 3) =>
        /\ \A a \in {i, i + 1, i + 2} : Memory(a)' \in 0 .. 9
        /\ 100 * Memory(i)' + 10 * Memory(i + 1)' + Memory(i + 2)' = v[x]
        /\ \A a \in Addresses \ {i, i + 1, i + 2} : Memory(a)' = Memory(a)
        /\ i' = i /\ v' = v
        /\ pc' = pc + 2

\* C18: FX33 with VX in [0,255] and I + 2 inside the memory leaves three
\* decimal digits at I, I + 1, I + 2, hundreds first, that make up VX, and
\* changes no other memory byte, no register and not I; the program counter
\* is 2 further.
C18_BcdStoresDigits == [][C18_Step]_vars

\* F033 has stored 245 at 0x300.
C18_Stored245 ==
    /\ operand = \hF033 /\ v[0] = \hF5 /\ i = \h300
    /\ Memory(\h300) = 2 /\ Memory(\h301) = 4 /\ Memory(\h302) = 5
    /\ status = "running"

C19_Step ==
    LET x == get_x(Word) IN
    /\ (/\ Runs(\hF000) /\ get_nn(Word) = \h55
        /\ i \in 0 .. MEMORY - (x + 1)) =>
           /\ \A j \in 0 .. x : Memory(i + j)' = v[j]
           /\ \A a \in Addresses \ (i .. i + x) : Memory(a)' = Memory(a)
           /\ v' = v
           /\ i' = i + x + 1
           /\ pc' = pc + 2
    /\ (/\ Runs(\hF000) /\ get_nn(Word) = \h65
        /\ i \in 0 .. MEMORY - (x + 1)) =>
           /\ \A j \in 0 .. x : v'[j] = Memory(i + j)
           /\ \A j \in x + 1 .. REGISTERS - 1 : v'[j] = v[j]
           /\ memory' = memory
           /\ i' = i + x + 1
           /\ pc' = pc + 2

\* C19: FX55 stores Vj at I + j for every j in 0..X and changes no other
\* memory byte and no register; FX65 fills Vj from I + j for every j in 0..X
\* and changes no other register and no memory byte; each leaves I at its
\* old value plus X + 1 and the program counter 2 further.
C19_BlockDumpAndLoad == [][C19_Step]_vars

C20_Step ==
    /\ i' \in 0 .. 65535
    /\ Runs(\hA000) => i' = get_nnn(Word)
    /\ (Runs(\hF000) /\ get_nn(Word) = \h1E) => i' = i + v[get_x(Word)]

\* C20: I stays a 16-bit value, 0 <= I <= 0xFFFF, through every
\* instruction; ANNN leaves I = NNN and FX1E leaves I = I + VX.
C20_IndexIsSixteenBits == [][C20_Step]_vars

\* The addresses I + offset the instruction at pc is to access: the rows of
\* a sprite, the three digits, the registers V0..VX.
C21_Accessed ==
    LET w == Word
        class == decode_opcode(w)
    IN
    CASE class = \hD000 -> { i + k : k \in 0 .. get_n(w) - 1 }
      [] class = \hF000 /\ get_nn(w) = \h33 -> { i, i + 1, i + 2 }
      [] class = \hF000 /\ get_nn(w) \in {\h55, \h65} ->
            { i + k : k \in 0 .. get_x(w) }
      [] OTHER -> {}

C21_Step ==
    /\ (CycleStep /\ {pc, pc + 1} \subseteq Addresses
        /\ C21_Accessed \ Addresses # {}) =>
          /\ status' = "IndexError"
          /\ \A a \in Addresses \ C21_Accessed : Memory(a)' = Memory(a)
    /\ (CycleStep /\ ~({pc, pc + 1} \subseteq Addresses)) =>
          /\ status' = "IndexError"
          /\ memory' = memory /\ pc' = pc

\* C21: an instruction fetch at PC, or an access of DXYN, FX33, FX55 or FX65
\* at I + offset, whose address lies outside [0,4096) fails with an error
\* and neither reads nor writes some other memory cell.
C21_NoSilentOutOfBounds == [][C21_Step]_vars

\* A step in which update_timers runs: a cycle whose handler returns, or the
\* key-down that lets FX0A return.
TimersUpdated ==
    \/ CycleStep /\ status' = "running"
    \/ status = "waiting" /\ status' = "running"

\* What the handler of the step leaves in a timer before update_timers
\* runs: VX after FX15 (delay) or FX18 (sound), the timer's value otherwise.
TimerSet(nn, timer) ==
    IF status = "running" /\ decode_opcode(Word) = \hF000
       /\ get_nn(Word) = nn
    THEN v[get_x(Word)] ELSE timer

C22_Step ==
    /\ delay' >= 0 /\ sound' >= 0
    /\ TimersUpdated =>
         LET d == TimerSet(\h15, delay)
             s == TimerSet(\h18, sound)
         IN
         /\ delay' = IF d # 0 THEN d - 1 ELSE 0
         /\ sound' = IF s # 0 THEN s - 1 ELSE 0
         /\ beep' = (s = 1)

\* C22: each timer update decrements the delay timer and the sound timer by
\* exactly 1 when non-zero and leaves a timer at 0 unchanged, neither timer
\* is ever negative, and the cue is signalled in exactly the updates in
\* which the sound timer is 1 before the decrement.
C22_TimersCountDownToZero == [][C22_Step]_vars

\* A call of execute_cycle by the main loop returns: it began in this step,
\* or it began earlier and sat in FX0A's loop since.
HostCycleReturns ==
    /\ host = "cycle" /\ host' = "draw"
    /\ status \in {"running", "waiting"} /\ status' = "running"

C23_Step ==
    (/\ HostCycleReturns
     /\ \/ delay' # TimerSet(\h15, delay)
        \/ sound' # TimerSet(\h18, sound)) => due

\* C23: in a cycle the timers are ticked only if a fixed time quantum (a
\* 60 Hz period) has elapsed since they were last ticked, so that the
\* number of ticks does not follow the number of instructions executed.
C23_TimersTickOnlyWhenDue == [][C23_Step]_vars

\* The event taken in this step is a KEYDOWN that finds one of the sixteen
\* keys held.
MappedKeyDown == event'.type = "KEYDOWN" /\ event'.held # {}

C24_Step ==
    /\ (Runs(\hF000) /\ get_nn(Word) = \h0A) =>
          /\ status' = "waiting"
          /\ waitreg' = get_x(Word)
          /\ UNCHANGED <<pc, i, v, memory, gfx, stack, sp, delay, sound>>
    /\ (status = "waiting" /\ ~MappedKeyDown) =>
          /\ status' \in {"waiting", "exit"}
          /\ UNCHANGED <<pc, i, v, memory, gfx, stack, sp, delay, sound,
                         operand, waitreg>>
    /\ (status = "waiting" /\ MappedKeyDown) =>
          /\ status' = "running"
          /\ waitreg = get_x(operand)
          /\ event'.held \subseteq 0 .. 15
          /\ v'[waitreg] \in event'.held
          /\ v' = [v EXCEPT ![waitreg] = v'[waitreg]]
          /\ pc' = pc + 2
          /\ UNCHANGED <<i, memory, gfx, stack, sp, operand>>
          /\ delay' = Ticked(delay) /\ sound' = Ticked(sound)

\* C24: FX0A makes the machine wait; while it waits no instruction is
\* fetched or executed and PC, I, the registers, memory, display, stack and
\* timers keep their values; the first key-down at which one of the sixteen
\* keys is held ends the wait: VX receives the value 0x0..0xF of a key held
\* at that moment, PC advances by 2 once, and the cycle completes.
C24_WaitForKey == [][C24_Step]_vars

\* 6003 F015 F018 F10A: key A arrived while the timers were running.
C24_KeyArrived ==
    /\ rom \in WaitImages
    /\ status = "running" /\ operand = \hF10A /\ event.type = "KEYDOWN"
    /\ v[1] = \h0A /\ pc = Addr(4) /\ delay = 0 /\ sound = 1

C25_Step ==
    (host = "cycle" /\ status \in {"running", "waiting"}) =>
        \/ host' = "draw" /\ status' = "running"
        \/ status' \notin {"running", "waiting"}

\* C25: every stepping call the main loop makes hands control back to the
\* loop after one instruction or, while a key is waited for, after one
\* polling attempt, whether or not a key was pressed: no step leaves the
\* machine inside the call.
C25_SteppingCallReturns == [][C25_Step]_vars

C26_Step ==
    /\ (status = "waiting" /\ event'.type = "QUIT") =>
          status' = "exit" /\ v' = v /\ pc' = pc
    /\ (status = "waiting" /\ event'.type = "KEYDOWN"
        /\ event'.key = "unmapped") =>
          status' = "waiting" /\ v' = v /\ pc' = pc
    /\ (status = "waiting" /\ status' # "waiting") =>
          event'.type \in {"KEYDOWN", "QUIT"}

\* C26: a quit event that arrives while FX0A waits ends the wait and stops
\* the machine with VX and PC as they were; a key-down event for a key
\* outside the 16-key map leaves the machine waiting; nothing but an event
\* ends the wait.
C26_WaitCancelledOnlyFromOutside == [][C26_Step]_vars

\* The cycle of this step runs the clear: a word of class 0 whose low
\* nibble is 0; or a draw.
Clears == Runs(\h0000) /\ get_n(Word) = 0
Draws == Runs(\hD000)

C27_Step ==
    /\ \A p \in DOMAIN gfx' : p \in Pixels /\ gfx'[p] = 1
    /\ Clears =>
          /\ \A p \in Pixels : Pixel(p)' = 0
          /\ shouldDraw'
    /\ ~(Clears \/ Draws) => UNCHANGED <<gfx, shouldDraw>>

\* C27: every display entry is 0 or 1; the clear sets every pixel to 0 and
\* sets the redraw flag; a step that is neither a clear nor a draw (any
\* other instruction with its timer update, a failing cycle, an event while
\* a key is waited for) leaves the display buffer and the redraw flag as
\* they were.
C27_DisplayChangedByClearAndDraw == [][C27_Step]_vars

\* 00E0 has run on a display that showed the font's 0.
C27_Cleared ==
    /\ rom = Prog(<< \h6000, \h6100, \hA000, \hD015, \h00E0, \hD015,
                     \hD015 >>)
    /\ operand = \h00E0 /\ pc = Addr(5) /\ status = "running"
    /\ shouldDraw /\ \A p \in Pixels : Pixel(p) = 0

C28_Step ==
    /\ host = "cycle" => ~shouldDraw
    /\ (host = "cycle" /\ (Clears \/ Draws) /\ status' = "running") =>
          shouldDraw' /\ host' = "draw"
    /\ (host = "draw" /\ shouldDraw) =>
          /\ screen' = gfx /\ gfx' = gfx
          /\ ~shouldDraw' /\ host' = "events"
    /\ ~(host = "draw" /\ shouldDraw) => screen' = screen
    /\ (shouldDraw /\ ~shouldDraw') => host = "draw"
    /\ host' = "cycle" => ~shouldDraw'

\* C28: under the main loop the redraw flag is false whenever a cycle
\* starts; a cycle that completes a clear or a draw sets it; the loop then
\* paints the display buffer on the window once and clears the flag before
\* the next cycle; nothing but that step clears the flag, and the window is
\* painted in no other step.
C28_RedrawProtocol == [][C28_Step]_vars

\* D015 has drawn the font's 0 and the loop has painted it.
C28_Rendered ==
    /\ rom = Prog(<< \h6000, \h6100, \hA000, \hD015, \h00E0, \hD015,
                     \hD015 >>)
    /\ operand = \hD015 /\ pc = Addr(4) /\ host = "events"
    /\ ~shouldDraw /\ screen = gfx /\ Cardinality(DOMAIN screen) = 14

C29_Step ==
    (host = "events" /\ status = "running") =>
        status' = "running" /\ host' = "cycle"

\* C29: the main loop's event polling between two cycles does not fail:
\* whatever events are queued, the key states are handed to the CPU and the
\* loop goes on to the next cycle, so that EX9E and EXA1 later see the keys
\* the user holds.
C29_PolledKeysReachTheCpu == [][C29_Step]_vars

\* The addresses the image's bytes are loaded at.
ImageArea == PROGRAM_COUNTER_START .. PROGRAM_COUNTER_START + Len(rom) - 1

C30_Fresh ==
    /\ Len(rom) <= MEMORY - PROGRAM_COUNTER_START
    /\ \A a \in 0 .. 79 : Memory(a) = FONTSET[a + 1]
    /\ \A a \in ImageArea : Memory(a) = rom[a - PROGRAM_COUNTER_START + 1]
    /\ \A a \in Addresses \ (0 .. 79 \cup ImageArea) : Memory(a) = 0
    /\ pc = \h200 /\ sp = 0 /\ i = 0
    /\ \A r \in 0 .. REGISTERS - 1 : v[r] = 0
    /\ delay = 0 /\ sound = 0
    /\ \A p \in Pixels : Pixel(p) = 0
    /\ ~shouldDraw
    /\ \A k \in 0 .. KEYS - 1 : ~keys[k]

\* C30: the machine starts, after construction and the load of the image,
\* with the 80 glyph bytes at 0..79, the image's bytes from 0x200 on, 0 in
\* every other memory byte, PC = 0x200, sp = 0, every register and I at 0,
\* both timers at 0, every pixel 0, the redraw flag false and all sixteen
\* keys released; the image is not replaced afterwards.
C30_InitialState == C30_Fresh /\ [][rom' = rom]_vars

\* 60FF 7001 has been loaded and nothing has run yet.
C30_Loaded ==
    /\ rom = Prog(<< \h60FF, \h7001 >>)
    /\ operand = 0 /\ pc = PROGRAM_COUNTER_START /\ memory = Empty
    /\ Memory(0) = \hF0 /\ Memory(79) = \h80
    /\ Memory(\h200) = \h60 /\ Memory(\h203) = \h01 /\ Memory(\h208) = 0

C31_Step ==
    LET w == decoded.word
        d == decoded'
    IN
    /\ d.word = w
    /\ decoded.returned => d = decoded
    /\ d.class = BitAnd(w, \hF000)
    /\ d.x = ShiftRight(BitAnd(w, \h0F00), 8) /\ d.x \in 0 .. 15
    /\ d.y = ShiftRight(BitAnd(w, \h00F0), 4) /\ d.y \in 0 .. 15
    /\ d.n = BitAnd(w, \h000F)
    /\ d.nn = BitAnd(w, \h00FF)
    /\ d.nnn = BitAnd(w, \h0FFF)
    /\ d.nn = 16 * d.y + d.n
    /\ d.nnn = 256 * d.x + d.nn
    /\ w = d.class + d.nnn
    /\ UNCHANGED <<rom, memory, v, i, pc, stack, sp, delay, sound, gfx,
                   shouldDraw, keys, operand, waitreg, status>>

\* C31: for every 16-bit word w the field extractors return class =
\* w & 0xF000, X = bits 8-11, Y = bits 4-7, N = bits 0-3, NN = bits 0-7 and
\* NNN = bits 0-11, with NN = 16*Y + N, NNN = 256*X + NN and w = class + NNN;
\* they change no machine state, and asked again they return the same.
C31_DecodingIsPureAndTotal == [][C31_Step]_vars

\* The fields of 0xD125 have been returned.
C31_DecodedD125 ==
    /\ decoded.returned /\ decoded.word = \hD125
    /\ decoded.class = \hD000 /\ decoded.x = 1 /\ decoded.y = 2
    /\ decoded.n = 5 /\ decoded.nn = \h25 /\ decoded.nnn = \h125

\* Whether w is a skip whose condition holds in the current state.  A word
\* of class 0xE is the skip its low nibble selects in skip_keys.
C32_SkipTaken(w) ==
    LET class == decode_opcode(w)
        x == get_x(w)
        y == get_y(w)
    IN
    \/ class = \h3000 /\ v[x] = get_nn(w)
    \/ class = \h4000 /\ v[x] # get_nn(w)
    \/ class = \h5000 /\ v[x] = v[y]
    \/ class = \h9000 /\ v[x] # v[y]
    \/ class = \hE000 /\ get_n(w) = \hE /\ keys[ListIndex(v[x], KEYS)]
    \/ class = \hE000 /\ get_n(w) = \h1 /\ ~keys[ListIndex(v[x], KEYS)]

C32_Step ==
    /\ (~FetchFaults(Self) /\ CycleStep /\ status' = "running") =>
         LET w == Word
             class == decode_opcode(w)
         IN
         CASE class \in {\h1000, \h2000} -> pc' = get_nnn(w)
           [] class = \hB000 -> pc' = get_nnn(w) + v[0]
           [] class = \h0000 /\ get_n(w) = \h000E -> TRUE
           [] OTHER -> pc' = IF C32_SkipTaken(w) THEN pc + 4 ELSE pc + 2
    /\ (status = "waiting" /\ status' = "running") => pc' = pc + 2

\* C32: an instruction other than 1NNN, 2NNN, 00EE and BNNN that completes
\* without error adds exactly 2 to the program counter, or exactly 4 when it
\* is a skip whose condition holds; 1NNN and 2NNN leave the program counter
\* at NNN and BNNN leaves it at NNN + V0, with no further advance.
C32_PcAdvance == [][C32_Step]_vars

\* A BNNN with V0 not 0 has completed.
C32_JumpedWithOffset ==
    /\ decode_opcode(operand) = \hB000 /\ v[0] > 0
    /\ pc = get_nnn(operand) + v[0] /\ status = "running"

\* Registers after a program has overwritten V0..VX.
C33_Changed(x) ==
    { [r \in 0 .. REGISTERS - 1 |-> IF r <= x THEN c ELSE v[r]] :
        c \in {0, \hAA, \hFF} }
    \cup { [r \in 0 .. REGISTERS - 1 |->
               IF r <= x THEN (v[r] + 1) % 256 ELSE v[r]] }

\* FX55 from the current state, I put back, V0..VX overwritten, FX65.
C33_RoundTrip(x) ==
    LET dumped == _FX55(Self, x) IN
    dumped.err = "none" =>
        \A changed \in C33_Changed(x) :
            LET loaded == _FX65([dumped EXCEPT !.i = i, !.v = changed], x)
            IN
            /\ loaded.err = "none"
            /\ \A j \in 0 .. x : loaded.v[j] = v[j]

C33_Step ==
    /\ (Runs(\hF000) /\ get_nn(Word) = \h55) =>
         \A x \in 0 .. REGISTERS - 1 : C33_RoundTrip(x)
    /\ (rom \in RoundTripImages /\ Runs(\hF000) /\ get_nn(Word) = \h65) =>
         /\ status' = "running"
         /\ \A j \in 0 .. get_x(Word) : v'[j] = rom[2 * j + 2]

\* C33: for every X in 0..15 and every I from which FX55 completes, FX55,
\* then I set back to its value before the dump, then any change of V0..VX,
\* then FX65 with the same X leaves V0..VX with the values they held at the
\* dump.
C33_DumpLoadRoundTrip == [][C33_Step]_vars

\* A program has dumped 0xFF, 0x22, 0x33 at 0xFFB, overwritten the three
\* registers and loaded them back.
C33_LoadedBack ==
    /\ rom \in RoundTripImages /\ operand = \hF265 /\ status = "running"
    /\ v[0] = \hFF /\ v[1] = \h22 /\ v[2] = \h33
    /\ i = \hFFB + 3 /\ pc = Addr(10)

C34_Step ==
    (Runs(\hF000) /\ status' = "running") =>
        LET x == get_x(Word)
            nn == get_nn(Word)
        IN
        /\ (nn = \h15 /\ v[x] > 0) => delay' = v[x] - 1
        /\ (nn = \h18 /\ v[x] > 0) => sound' = v[x] - 1
        /\ nn = \h07 => v'[x] = delay /\ delay' = Ticked(delay)

\* C34: within one cycle the instruction runs before the timers are
\* updated: a cycle that executes FX15 (FX18) with VX = k > 0 ends with the
\* delay (sound) timer at k - 1, and a cycle that executes FX07 leaves in VX
\* the delay timer's value from before that cycle's decrement.
C34_InstructionBeforeTimers == [][C34_Step]_vars

\* F107 has read a running delay timer: V1 is one above what the timer
\* holds now.
C34_ReadBeforeDecrement ==
    /\ operand = \hF107 /\ status = "running"
    /\ delay > 0 /\ v[1] = delay + 1

C35_Step ==
    LET w == Word
        x == get_x(w)
        y == get_y(w)
    IN
    /\ (Runs(\h0000) /\ get_n(w) = 0) =>
         /\ status' = "running" /\ pc' = pc + 2
         /\ gfx' = Empty /\ shouldDraw'
         /\ v' = v /\ i' = i /\ memory' = memory /\ sp' = sp
         /\ stack' = stack
    /\ (Runs(\h0000) /\ get_n(w) = \hE) =>
         /\ sp' = sp - 1
         /\ sp \in 1 .. STACK =>
              status' = "running" /\ pc' = stack[sp - 1] + 2
         /\ gfx' = gfx /\ v' = v /\ i' = i /\ memory' = memory
         /\ stack' = stack
    /\ Runs(\h5000) => status' = "running" /\ C8_Skip(v[x] = v[y])
    /\ Runs(\h9000) => status' = "running" /\ C8_Skip(v[x] # v[y])
    /\ (CycleStep /\ FetchFaults(Self)) =>
         status' = "IndexError" /\ pc' = pc /\ gfx' = gfx

\* C35: a class-0 word whose low nibble is 0, the all-zero word included,
\* clears the display and adds 2 to the program counter; a class-0 word
\* whose low nibble is 0xE returns; a word 5XYn or 9XYn is the register
\* skip for any n; so a program in zero-filled memory clears and advances
\* by 2 at every cycle until the fetch at the end of the memory fails.
C35_DispatchIgnoresOtherBits == [][C35_Step]_vars

\* A program that drew and jumped to 0xFF0 has cleared the display on its
\* way through the zeros, and its fetch at 4096 has failed.
C35_RanOffTheEnd ==
    /\ rom \in DispatchImages /\ status = "IndexError" /\ pc = MEMORY
    /\ operand = \h0000 /\ gfx = Empty /\ shouldDraw

C36_Step ==
    (Runs(\hE000) /\ get_n(Word) \in {\hE, \h1}
                  /\ v[get_x(Word)] > \hF) =>
        /\ status' = "IndexError"
        /\ pc' = pc /\ v' = v /\ i' = i /\ memory' = memory
        /\ stack' = stack /\ sp' = sp /\ gfx' = gfx
        /\ shouldDraw' = shouldDraw
        /\ delay' = delay /\ sound' = sound

\* C36: EX9E and EXA1 with VX above 0xF look at no key: the cycle ends the
\* run with an error, and the program counter, the registers, I, the
\* memory, the stack, the display, the keys and both timers are as they
\* were before it; the value is not wrapped into 0..15 and the key is not
\* taken as released.
C36_KeySkipOutOfRangeFails == [][C36_Step]_vars

\* 6010 E09E: the skip on V0 = 16 has failed where it stood.
C36_KeySkipFailed ==
    /\ operand = \hE09E /\ v[0] = 16 /\ status = "IndexError"
    /\ pc = Addr(1)
====
